---- MODULE Spec2Model ----
(***************************************************************************)
(* The PostHog Flutter Linux plugin: the durable event queue, the agent    *)
(* flush worker, the inline and explicit flushes, the session-replay       *)
(* pipeline with its worker, and the close / dispose protocol.             *)
(***************************************************************************)
EXTENDS Integers, Sequences, FiniteSets, TLC

\* ---------------------------------------------------------------- bounds
MaxEvents == 3
MaxFrames == 2
MaxTime == 1
MaxUuids == 3

\* ------------------------------------------------------ program constants
DefaultFlushAt == 20
DefaultMaxBatchSize == 50
DefaultBatchSize == 10
ReplayBatchSize == 2

\* ------------------------------------------------------------ input sets
FlushAtValues == {2, DefaultFlushAt}
MaxBatchSizeValues == {0, 1, DefaultMaxBatchSize}
OptOutArgs == {"absent", "true", "false"}
EventNames == {"x"}
ServerModes == {"ok", "5xx", "down"}
CaptureNames == {"hello", ""}
UserIds == {"user", ""}
SuperKeys == {"$lib", "$screen_name", "plan"}

\* The arguments of a setup call, with the outcome of the two Initialize
\* calls it makes (env): a map with an apiKey, and either a map with an empty
\* apiKey or a value that is not a map.
SetupArgs(optOuts, flushAts, maxBatchSizes, replays, batchSizes, preloads, envs) ==
  [map : {TRUE}, apiKey : {"phc_test"}, optOut : optOuts, flushAt : flushAts,
   maxBatchSize : maxBatchSizes, sessionReplay : replays,
   batchSize : batchSizes, preloadFeatureFlags : preloads, env : envs]
  \cup
  [map : BOOLEAN, apiKey : {""}, optOut : {"absent"}, flushAt : {DefaultFlushAt},
   maxBatchSize : {DefaultMaxBatchSize}, sessionReplay : {FALSE},
   batchSize : {DefaultBatchSize}, preloadFeatureFlags : {TRUE}, env : {"ok"}]

\* Setups of the event pipeline alone.
EventSetups ==
  SetupArgs(OptOutArgs, FlushAtValues, MaxBatchSizeValues, {FALSE},
            {DefaultBatchSize}, BOOLEAN, {"ok"})
  \cup
  SetupArgs(OptOutArgs, {DefaultFlushAt}, {DefaultMaxBatchSize}, {FALSE},
            {DefaultBatchSize}, {TRUE}, {"storage_fails", "http_fails"})

\* Setups that succeed and leave the agent not opted out.
LiveSetups ==
  {a \in EventSetups : a.env = "ok" /\ a.optOut = "false" /\ a.apiKey # ""}

\* Setups for the content of events: a flush threshold of one event or three.
ContentSetups ==
  SetupArgs({"false"}, {1, 3}, {DefaultMaxBatchSize}, {FALSE},
            {DefaultBatchSize}, {FALSE}, {"ok"})

\* Setups with session replay, for the life cycle of the two workers.
ReplaySetups ==
  SetupArgs({"true", "false"}, {DefaultFlushAt}, {DefaultMaxBatchSize},
            {TRUE}, {ReplayBatchSize}, {FALSE}, {"ok"})

\* Setups that succeed, with and without the preload of feature flags.
FlagSetups ==
  SetupArgs({"false"}, {DefaultFlushAt}, {DefaultMaxBatchSize}, {FALSE},
            {DefaultBatchSize}, BOOLEAN, {"ok"})

\* Setups that succeed, with and without session replay, whose worker sends
\* one row per iteration.
ShutdownSetups ==
  SetupArgs({"false"}, {DefaultFlushAt}, {1}, BOOLEAN, {ReplayBatchSize},
            {FALSE}, {"ok"})

\* Setups under every kind of maxBatchSize: negative, one row, several rows.
BatchLimitSetups ==
  SetupArgs({"false"}, {2, DefaultFlushAt}, {-1, 1, 2}, {FALSE},
            {DefaultBatchSize}, {FALSE}, {"ok"})

\* Setups that succeed, with and without session replay.
RestartSetups ==
  SetupArgs({"false"}, {DefaultFlushAt}, {DefaultMaxBatchSize}, BOOLEAN,
            {ReplayBatchSize}, {FALSE}, {"ok"})

\* Setups with session replay under every kind of batchSize: negative, zero,
\* one frame, several frames.
BatchSizeSetups ==
  SetupArgs({"false"}, {DefaultFlushAt}, {DefaultMaxBatchSize}, {TRUE},
            {-1, 0, 1, ReplayBatchSize}, {FALSE}, {"ok"})

VARIABLES
  \* _PosthogFlutterPlugin
  initialized, opt_out, should_flush, flush_at, max_batch_size,
  storage_manager, http_client, session_replay_manager, config_mutex,
  \* StorageManager: the events table in rowid order, the id generator, time()
  events, nextId, now,
  \* StorageManager: distinct_id and session_id of the settings table, the
  \* super_properties table; the number of ids generated so far
  distinct_id, session_id, super_properties, nextUuid,
  \* flush_events_thread: position and locals
  fpc, fevents, fresp,
  \* SessionReplayManager
  r_should_flush, is_active, batch_size, snapshot_buffer, meta_event_buffer,
  timer_expired, nextFrame,
  \* SessionReplayManager::FlushThread: position and locals
  rpc, rsnapshots, rmeta,
  \* the threads running close and dispose
  closePc, disposePc,
  \* the remote server
  server,
  \* observation of the step that led to the state: the host call it made and
  \* the HTTP request it issued, if any
  call, wire,
  \* observation of the run: 2xx answers per row id, the progress of close
  ackCount, closeCalled, closeReturned,
  \* the mutexes and threads, one step per acquisition: the thread owning each
  \* mutex, what each thread still has to do in its current call or iteration,
  \* the state of each thread, the should_flush flag of each background thread
  owner, todo, thread, flushing,
  \* FeatureFlagsManager::flags_cache_, the feature_flags row of the settings
  \* table, the body the server gives to /decide, and the value the last
  \* step's ReloadFeatureFlags returned ("none" when the step ran none)
  flags_cache, feature_flags, decide_body, reload_result,
  \* the number of ids drawn when the previous process ended, 0 in the first
  prevUuid,
  \* a thread other than the platform thread inside AddSnapshot or
  \* AddMetaEvent: "idle", or what it is about to append once it has read
  \* is_active_ and waits for buffer_mutex_
  addPc,
  \* the frames handed to SendBatch so far
  handed,
  \* StorageManager: the opt_out row of the settings table ("" when absent)
  settings_opt_out

pluginVars == <<initialized, opt_out, should_flush, flush_at, max_batch_size,
                storage_manager, http_client, session_replay_manager>>
storeVars == <<events, nextId>>
settingsVars == <<distinct_id, session_id, super_properties, nextUuid>>
flushVars == <<fpc, fevents, fresp>>
replayCfg == <<r_should_flush, is_active, batch_size>>
replayBuf == <<snapshot_buffer, meta_event_buffer, nextFrame>>
replayThr == <<rpc, rsnapshots, rmeta>>
closeVars == <<closePc, closeCalled, closeReturned>>
lockVars == <<owner, todo, thread, flushing>>
flagVars == <<flags_cache, feature_flags, decide_body, reload_result>>
runVars == <<prevUuid, addPc, handed, settings_opt_out>>

vars == <<pluginVars, config_mutex, storeVars, now, flushVars, replayCfg,
          replayBuf, timer_expired, replayThr, closeVars, disposePc, server,
          call, wire, ackCount, settingsVars, lockVars, flagVars, runVars>>

\* The mutexes: _PosthogFlutterPlugin::config_mutex,
\* SessionReplayManager::buffer_mutex_, StorageManager::mutex_ and
\* HttpClient::curl_mutex_.
Mutexes == {"config_mutex", "buffer_mutex_", "mutex_", "curl_mutex_"}

\* The platform thread, which runs every method call and dispose, the thread
\* of flush_events_thread and the thread of SessionReplayManager::FlushThread.
Threads == {"platform", "flush_thread", "flush_thread_"}

\* ------------------------------------------------------------- helpers
Min(a, b) == IF a < b THEN a ELSE b

Range(s) == {s[i] : i \in DOMAIN s}

Ids(batch) == {batch[i].id : i \in DOMAIN batch}

\* A JSON object without members.
NoProperties == [k \in {} |-> ""]

\* object[k] = v
Put(object, k, v) ==
  [x \in DOMAIN object \cup {k} |-> IF x = k THEN v ELSE object[x]]

\* object[k] = v for every member of assigned, in turn.
PutAll(object, assigned) ==
  [x \in DOMAIN object \cup DOMAIN assigned |->
     IF x \in DOMAIN assigned THEN assigned[x] ELSE object[x]]

\* The members of object whose key is in keys.
Restrict(object, keys) == [x \in DOMAIN object \cap keys |-> object[x]]

NoPost == [src |-> "none", batch |-> <<>>, success |-> FALSE, status |-> 0,
           opt_out |-> FALSE, after_close |-> FALSE]

\* A pointer member is null before setup created the object and again after
\* dispose deleted it.
IsNull(p) == p \in {"null", "released"}

MutexNeverWaits == TRUE

\* std::lock_guard<std::mutex> lock(plugin->config_mutex) can be taken.
MutexFree == config_mutex = "none"

\* ------------------------------------------------------- StorageManager
DbOpen == storage_manager = "valid"

\* PostHogEvent::to_json: the event name, the distinct id and the properties.
Event(name, did, properties) ==
  [event |-> name, distinct_id |-> did, props |-> properties]

\* The row EnqueueEvent inserts: a fresh id, created_at = time(nullptr) and
\* the serialised event.
Row(ev) ==
  [id |-> nextId, created_at |-> now, event |-> ev.event,
   distinct_id |-> ev.distinct_id, props |-> ev.props]

\* EnqueueEvent: INSERT INTO events; nothing is stored without a database.
EnqueueEvent(q, ev) == IF DbOpen THEN Append(q, Row(ev)) ELSE q

\* generate_uuid: the n-th id drawn differs from every id drawn before.
GenerateUuid(n) == ToString(n)

\* get_or_create_distinct_id: the stored id, or a new one that is stored.
GetOrCreateDistinctId == IF distinct_id = "" THEN GenerateUuid(nextUuid) ELSE distinct_id

\* The ids drawn once get_or_create_distinct_id has returned.
UuidAfterDistinctId == IF distinct_id = "" THEN nextUuid + 1 ELSE nextUuid

SessionIdAlwaysGenerated(n) == GenerateUuid(n)

\* get_or_create_session_id, when n ids have been drawn: the stored id, or a
\* new one that is stored.
GetOrCreateSessionId(n) == IF session_id = "" THEN GenerateUuid(n) ELSE session_id

\* The ids drawn once get_or_create_session_id has returned.
UuidAfterSessionId(n) == IF session_id = "" THEN n + 1 ELSE n

SetupSessionIdFromStore == GetOrCreateSessionId(UuidAfterDistinctId)

\* The session id of handle_setup: generate_uuid(), after the distinct id.
SetupSessionId == GenerateUuid(UuidAfterDistinctId)

\* properties["$session_id"] = session_id, unless the id is empty.
WithSessionId(object, sid) ==
  IF sid # "" THEN Put(object, "$session_id", sid) ELSE object

\* The library block of handle_capture and handle_screen.
LibraryProperties ==
  [k \in {"$lib", "$lib_version", "$device_type", "$os", "$os_version",
          "$screen_width", "$screen_height"} |->
     CASE k = "$lib" -> "posthog-flutter"
       [] k = "$lib_version" -> "5.9.0"
       [] k = "$device_type" -> "Mobile"
       [] k = "$os" -> "Linux"
       [] k = "$os_version" -> "Unknown"
       [] k = "$screen_width" -> "1024"
       [] k = "$screen_height" -> "600"]

\* The properties of the session event setup and createNewSession enqueue.
SessionEventProperties(screen_name, sid) ==
  PutAll(Restrict(LibraryProperties, {"$lib", "$lib_version", "$device_type", "$os"}),
         [k \in {"$screen_name", "$session_id", "$window_id"} |->
            CASE k = "$screen_name" -> screen_name
              [] k = "$session_id" -> sid
              [] k = "$window_id" -> "main"])

\* The keys of the caller's properties that handle_capture copies by name
\* when their value is a string.
ManualKeys == {"$event_type", "$screen_name"}

\* handle_capture, before the caller's properties: the library block, the
\* session id, the window id, then every super property.
PropertiesBeforeCaller(sid) ==
  PutAll(Put(WithSessionId(LibraryProperties, sid), "$window_id", "main"),
         super_properties)

\* fl_value_to_json_obj of a map: the keys of a map cannot be enumerated, the
\* result is the empty object.
fl_value_to_json_obj(properties) == NoProperties

\* handle_capture: the keys copied by name are assigned, then every key of the
\* converted map is added when the object does not have it yet.
CaptureProperties(sid, properties) ==
  LET manual == PutAll(PropertiesBeforeCaller(sid), Restrict(properties, ManualKeys))
  IN PutAll(fl_value_to_json_obj(properties), manual)

\* The id generator after one EnqueueEvent.
IdAfterEnqueue == IF DbOpen THEN nextId + 1 ELSE nextId

\* All total orders of a set of rows that are ascending in created_at.
RECURSIVE Orders(_)
Orders(S) ==
  IF S = {} THEN {<<>>}
  ELSE UNION {{<<r>> \o t : t \in Orders(S \ {r})} :
                r \in {x \in S : \A y \in S : x.created_at <= y.created_at}}

\* LIMIT n of SQLite: a negative n is no limit.
Limit(s, n) == IF n < 0 THEN s ELSE SubSeq(s, 1, Min(n, Len(s)))

\* GetQueuedEvents: SELECT ... ORDER BY created_at ASC LIMIT max_count.  Rows
\* of equal created_at come in an order the query does not fix.
GetQueuedEvents(q, max_count) ==
  IF DbOpen THEN {Limit(s, max_count) : s \in Orders(Range(q))} ELSE {<<>>}

\* RemoveEvents: DELETE ... WHERE id IN (ids).
RemoveEvents(q, ids) ==
  IF DbOpen /\ ids # {} THEN SelectSeq(q, LAMBDA r : r.id \notin ids) ELSE q

QueueSizeOfCapturedEvents(q) ==
  IF DbOpen THEN Len(SelectSeq(q, LAMBDA r : r.event # "$screen")) ELSE 0

SetOptOutAsWord(opt) == IF opt THEN "true" ELSE "false"

\* SetOptOut: the value written to the opt_out row.
SetOptOut(opt) == IF opt THEN "1" ELSE "0"

\* GetOptOut: false without a database or a row, else whether the row is "1".
GetOptOut == DbOpen /\ settings_opt_out = "1"

\* The answer of the isOptOut method: the in-memory flag, replaced by the
\* persisted one when there is a storage manager.
isOptOut == IF DbOpen THEN GetOptOut ELSE opt_out

\* GetQueueSize: the number of rows of the events table.
GetQueueSize(q) == IF DbOpen THEN Len(q) ELSE 0

\* ----------------------------------------------------------- HttpClient
\* The status the server answers with; a transport error leaves status 0.
ResponseStatus == IF server = "ok" THEN 200 ELSE IF server = "5xx" THEN 500 ELSE 0

\* What the server did with the request: accepted iff it answered 2xx.
Is2xx(status) == status >= 200 /\ status < 300

ResponseSuccessNoUpperBound == ResponseStatus >= 200

\* PerformPost: response.success = (status_code >= 200 && status_code < 300).
ResponseSuccess == ResponseStatus >= 200 /\ ResponseStatus < 300

\* The request as observed on the wire, with the opt-out flag and the close
\* state at the moment it is issued.
Request(src, batch) ==
  [src |-> src, batch |-> batch, success |-> ResponseSuccess,
   status |-> ResponseStatus, opt_out |-> opt_out, after_close |-> closeReturned]

\* The count of 2xx answers to batches that held row i, after this request.
Acked(batch) ==
  [i \in DOMAIN ackCount |->
     IF Is2xx(ResponseStatus) /\ i \in Ids(batch) THEN Min(ackCount[i] + 1, 2)
     ELSE ackCount[i]]

\* One POST of an event batch to /capture/ (PostCapture), observed.
PostCapture(src, batch) ==
  /\ wire' = Request(src, batch)
  /\ ackCount' = Acked(batch)

\* One POST that carries no queued rows (PostDecide, PostSessionReplay).
PostOther(src, batch) ==
  /\ wire' = Request(src, batch)
  /\ UNCHANGED ackCount

\* A step that issues no request.
Quiet == wire' = NoPost /\ UNCHANGED ackCount

\* ------------------------------------------------- FeatureFlagsManager
\* JSON text is a sequence of characters.
Quote == "\""
JsonTrue == <<"t", "r", "u", "e">>
JsonFalse == <<"f", "a", "l", "s", "e">>
JsonString(chars) == <<Quote>> \o chars \o <<Quote>>

\* The keys of the featureFlags object and the values the server gives them:
\* the booleans, the strings "true", "1", "" and the variant label "a".
FlagKeys == {"beta"}
ServerValues ==
  {JsonTrue, JsonFalse, JsonString(JsonTrue), JsonString(<<"1">>),
   JsonString(<<"a">>), JsonString(<<>>)}

\* std::map<std::string, std::string> with no entry.
NoFlags == [k \in {} |-> <<>>]

\* The bodies of a /decide response: the empty string, a JSON object without
\* the featureFlags key, one whose featureFlags is not an object, and one
\* whose featureFlags object gives values to some of the keys.
Body(kind, flags) == [kind |-> kind, flags |-> flags]
EmptyBody == Body("empty", NoFlags)
DecideBodies ==
  {Body(k, NoFlags) : k \in {"empty", "no_key", "not_object"}}
  \cup {Body("flags", f) : f \in UNION {[K -> ServerValues] : K \in SUBSET FlagKeys}}

\* flags_json.find('"', pos) within chars: the first index of a quote, 0 for npos.
FindQuote(chars) ==
  IF \E i \in DOMAIN chars : chars[i] = Quote
  THEN CHOOSE i \in DOMAIN chars :
         chars[i] = Quote /\ \A j \in 1..(i - 1) : chars[j] # Quote
  ELSE 0

\* The value ParseFlagsResponse stores for the value text of one entry: what
\* stands between the quotes of a string, the text itself of anything else.
ParseValue(text) ==
  IF text # <<>> /\ text[1] = Quote
  THEN SubSeq(Tail(text), 1, FindQuote(Tail(text)) - 1)
  ELSE text

\* ParseFlagsResponse(response_json) with blob in the feature_flags row: the
\* cache is cleared first; without a featureFlags object nothing else happens,
\* with one its entries are stored and the whole response is persisted.
ParseFlagsResponse(response_json, blob) ==
  IF response_json.kind # "flags"
  THEN [flags_cache |-> NoFlags, feature_flags |-> blob]
  ELSE [flags_cache |-> [k \in DOMAIN response_json.flags |->
                           ParseValue(response_json.flags[k])],
        feature_flags |-> response_json]

\* LoadCachedFlags in the constructor: the cache a new manager starts with.
LoadCachedFlags ==
  IF feature_flags.kind # "empty"
  THEN ParseFlagsResponse(feature_flags, feature_flags).flags_cache
  ELSE NoFlags

ParsesEveryBody == decide_body.kind # "empty"

\* ReloadFeatureFlags parses the response: response.success && !response.body.empty()
ReloadParses == ResponseSuccess /\ decide_body.kind # "empty"

\* ReloadFeatureFlags on a manager whose cache is cache: one POST to /decide.
ReloadFeatureFlags(cache) ==
  /\ PostOther("decide", <<>>)
  /\ reload_result' = IF ReloadParses THEN "true" ELSE "false"
  /\ IF ReloadParses
     THEN LET parsed == ParseFlagsResponse(decide_body, feature_flags) IN
          /\ flags_cache' = parsed.flags_cache
          /\ feature_flags' = parsed.feature_flags
     ELSE /\ flags_cache' = cache
          /\ feature_flags' = feature_flags
  /\ UNCHANGED decide_body

\* A step that calls no ReloadFeatureFlags.
NoReload ==
  /\ reload_result' = "none"
  /\ UNCHANGED <<flags_cache, feature_flags, decide_body>>

\* IsFeatureEnabled(flag_key) on the cache; value[0] of an empty string is '\0'.
IsFeatureEnabled(cache, flag_key) ==
  /\ flag_key \in DOMAIN cache
  /\ LET value == cache[flag_key] IN
       \/ value = JsonTrue
       \/ value = <<"1">>
       \/ value # <<>> /\ value[1] = Quote /\ Len(value) > 2

Init ==
  /\ initialized = FALSE /\ opt_out = FALSE /\ should_flush = FALSE
  /\ flush_at = DefaultFlushAt /\ max_batch_size = DefaultMaxBatchSize
  /\ storage_manager = "null" /\ http_client = "null"
  /\ session_replay_manager = "null" /\ config_mutex = "none"
  /\ events = <<>> /\ nextId = 1 /\ now = 0
  /\ distinct_id = "" /\ session_id = "" /\ super_properties = NoProperties
  /\ nextUuid = 1
  /\ fpc = "none" /\ fevents = <<>> /\ fresp = FALSE
  /\ r_should_flush = FALSE /\ is_active = FALSE /\ batch_size = DefaultBatchSize
  /\ snapshot_buffer = <<>> /\ meta_event_buffer = <<>>
  /\ timer_expired = FALSE /\ nextFrame = 1
  /\ rpc = "none" /\ rsnapshots = <<>> /\ rmeta = <<>>
  /\ closePc = "idle" /\ disposePc = "none"
  /\ server \in ServerModes
  /\ call = "none" /\ wire = NoPost
  /\ ackCount = [i \in 1..MaxEvents |-> 0]
  /\ closeCalled = FALSE /\ closeReturned = FALSE
  /\ owner = [l \in Mutexes |-> "none"]
  /\ todo = [t \in Threads |-> <<>>]
  /\ thread = [t \in Threads |-> IF t = "platform" THEN "run" ELSE "none"]
  /\ flushing = [t \in Threads \ {"platform"} |-> FALSE]
  /\ flags_cache = NoFlags /\ feature_flags = EmptyBody
  /\ decide_body = EmptyBody /\ reload_result = "none"
  /\ prevUuid = 0
  /\ addPc = "idle" /\ handed = {} /\ settings_opt_out = ""

\* ------------------------------------------------------------ host calls
\* Method calls arrive one at a time on the platform thread, which a close
\* still waiting in join() occupies, until dispose of the plugin has begun.
HostCanCall == disposePc = "none" /\ closePc = "idle"

\* Drain up to max_batch_size rows of q, post them, and remove them on 2xx
\* (the body shared by the inline flush and the explicit flush).
DrainAndPost(src, q) ==
  \E batch \in GetQueuedEvents(q, max_batch_size) :
    IF batch # <<>>
    THEN /\ PostCapture(src, batch)
         /\ events' = IF ResponseSuccess THEN RemoveEvents(q, Ids(batch)) ELSE q
    ELSE /\ events' = q
         /\ Quiet

SetupAcceptsEmptyKey(a) == initialized \/ ~a.map

\* A setup that would run again on an initialised agent.
SetupIgnoresInitialized(a) == ~a.map \/ a.apiKey = ""

\* handle_setup returns before it reads the configuration: the agent is
\* initialized, args is not a map, or apiKey is empty.
SetupReturnsEarly(a) == initialized \/ ~a.map \/ a.apiKey = ""

handle_setup(a) ==
  /\ HostCanCall
  /\ UNCHANGED <<lockVars, prevUuid, addPc, handed>>
  /\ settings_opt_out' =
       IF SetupReturnsEarly(a) \/ a.env # "ok" THEN settings_opt_out
       ELSE SetOptOut(IF a.optOut = "absent" THEN opt_out ELSE a.optOut = "true")
  /\ call' = "setup"
  /\ UNCHANGED <<config_mutex, now, fevents, fresp, replayBuf, rsnapshots,
                 rmeta, closeVars, disposePc, server, super_properties>>
  /\ IF SetupReturnsEarly(a)
     THEN UNCHANGED <<pluginVars, storeVars, fpc, replayCfg, timer_expired,
                      rpc, distinct_id, session_id, nextUuid>>
          /\ Quiet /\ NoReload
     ELSE LET oo == IF a.optOut = "absent" THEN opt_out ELSE a.optOut = "true" IN
       /\ flush_at' = a.flushAt /\ max_batch_size' = a.maxBatchSize
       /\ opt_out' = oo
       /\ IF a.env = "storage_fails"
          THEN /\ storage_manager' = "null"
               /\ UNCHANGED <<initialized, should_flush, http_client,
                              session_replay_manager, storeVars, fpc,
                              replayCfg, timer_expired, rpc, distinct_id,
                              session_id, nextUuid>> /\ Quiet /\ NoReload
          ELSE IF a.env = "http_fails"
          THEN /\ storage_manager' = "valid" /\ http_client' = "null"
               /\ UNCHANGED <<initialized, should_flush,
                              session_replay_manager, storeVars, fpc,
                              replayCfg, timer_expired, rpc, distinct_id,
                              session_id, nextUuid>> /\ Quiet /\ NoReload
          ELSE /\ nextId <= MaxEvents
               /\ storage_manager' = "valid" /\ http_client' = "valid"
               /\ IF a.sessionReplay
                  THEN /\ session_replay_manager' = "live"
                       /\ r_should_flush' = TRUE /\ is_active' = TRUE
                       /\ batch_size' = a.batchSize /\ timer_expired' = FALSE
                       /\ rpc' = "sleep"
                  ELSE UNCHANGED <<session_replay_manager, replayCfg,
                                   timer_expired, rpc>>
               /\ IF a.preloadFeatureFlags /\ ~oo
                  THEN ReloadFeatureFlags(LoadCachedFlags)
                  ELSE /\ Quiet
                       /\ flags_cache' = LoadCachedFlags
                       /\ reload_result' = "none"
                       /\ UNCHANGED <<feature_flags, decide_body>>
               /\ initialized' = TRUE /\ should_flush' = TRUE
               /\ fpc' = "sleep"
               /\ distinct_id' = GetOrCreateDistinctId
               /\ session_id' = SetupSessionId
               /\ nextUuid' = UuidAfterDistinctId + 1
               /\ events' = Append(events,
                     Row(Event("$screen", GetOrCreateDistinctId,
                               SessionEventProperties("App Started",
                                 SetupSessionId))))
               /\ nextId' = nextId + 1

\* A handler that builds one event and enqueues it, nothing else.
EnqueueOnly(ev) ==
  /\ nextId <= MaxEvents
  /\ events' = EnqueueEvent(events, ev)
  /\ nextId' = IdAfterEnqueue
  /\ Quiet

\* What every host call other than setup, close and the replay calls leaves
\* alone.
HostFrame ==
  UNCHANGED <<initialized, should_flush, flush_at, max_batch_size,
              storage_manager, http_client, session_replay_manager,
              config_mutex, now, flushVars, replayCfg, replayBuf,
              timer_expired, replayThr, closeVars, disposePc, server>>

\* A host call that returns before it touches the store.
Rejected == UNCHANGED <<storeVars, settingsVars>> /\ Quiet

CaptureReturnsEarlyIgnoringOptOut == ~initialized

\* if (!plugin->initialized || plugin->opt_out) return;
CaptureReturnsEarly == ~initialized \/ opt_out

\* handle_capture with the eventName and the properties of the call.
capture_event(name, properties) ==
  /\ HostCanCall /\ MutexFree
  /\ UNCHANGED <<lockVars, runVars>> /\ NoReload
  /\ call' = "capture"
  /\ HostFrame /\ UNCHANGED opt_out
  /\ IF CaptureReturnsEarly
     THEN Rejected
     ELSE LET did == GetOrCreateDistinctId
              sid == GetOrCreateSessionId(UuidAfterDistinctId)
              q == EnqueueEvent(events,
                     Event(name, did, CaptureProperties(sid, properties)))
          IN /\ nextId <= MaxEvents
             /\ distinct_id' = did /\ session_id' = sid
             /\ nextUuid' = UuidAfterSessionId(UuidAfterDistinctId)
             /\ UNCHANGED super_properties
             /\ nextId' = IdAfterEnqueue
             /\ IF GetQueueSize(q) >= flush_at
                THEN DrainAndPost("inline", q)
                ELSE events' = q /\ Quiet

\* A capture call that passes no properties.
handle_capture(name) == capture_event(name, NoProperties)

\* handle_identify with the userId of the call.
identify_user(user_id) ==
  /\ HostCanCall /\ MutexFree
  /\ UNCHANGED <<lockVars, runVars>> /\ NoReload
  /\ call' = "identify"
  /\ HostFrame /\ UNCHANGED opt_out
  /\ IF ~initialized \/ opt_out
     THEN Rejected
     ELSE LET sid == GetOrCreateSessionId(nextUuid) IN
          /\ distinct_id' = user_id /\ session_id' = sid
          /\ nextUuid' = UuidAfterSessionId(nextUuid)
          /\ UNCHANGED super_properties
          /\ EnqueueOnly(Event("$identify", user_id,
                               Put(WithSessionId(NoProperties, sid),
                                   "$window_id", "main")))

handle_identify == identify_user("user")

\* handle_screen with the screenName of the call.
screen_named(screen_name) ==
  /\ HostCanCall /\ MutexFree
  /\ UNCHANGED <<lockVars, runVars>> /\ NoReload
  /\ call' = "screen"
  /\ HostFrame /\ UNCHANGED opt_out
  /\ IF ~initialized \/ opt_out
     THEN Rejected
     ELSE LET did == GetOrCreateDistinctId
              sid == GetOrCreateSessionId(UuidAfterDistinctId)
          IN /\ distinct_id' = did /\ session_id' = sid
             /\ nextUuid' = UuidAfterSessionId(UuidAfterDistinctId)
             /\ UNCHANGED super_properties
             /\ EnqueueOnly(Event("$screen", did,
                  Put(WithSessionId(
                        PutAll([k \in {"$screen_name"} |-> screen_name],
                               LibraryProperties), sid),
                      "$window_id", "main")))

handle_screen == screen_named("Home")

call_group ==
  /\ HostCanCall /\ MutexFree
  /\ UNCHANGED <<lockVars, runVars>> /\ NoReload
  /\ call' = "group"
  /\ HostFrame /\ UNCHANGED opt_out
  /\ IF initialized /\ ~opt_out /\ ~IsNull(storage_manager)
     THEN /\ distinct_id' = GetOrCreateDistinctId
          /\ nextUuid' = UuidAfterDistinctId
          /\ UNCHANGED <<session_id, super_properties>>
          /\ EnqueueOnly(Event("$groupidentify", GetOrCreateDistinctId,
               [k \in {"$group_type", "$group_key"} |->
                  IF k = "$group_type" THEN "company" ELSE "acme"]))
     ELSE Rejected

call_captureException ==
  /\ HostCanCall /\ MutexFree
  /\ UNCHANGED <<lockVars, runVars>> /\ NoReload
  /\ call' = "captureException"
  /\ HostFrame /\ UNCHANGED opt_out
  /\ IF initialized /\ ~opt_out /\ ~IsNull(storage_manager)
     THEN /\ distinct_id' = GetOrCreateDistinctId
          /\ nextUuid' = UuidAfterDistinctId
          /\ UNCHANGED <<session_id, super_properties>>
          /\ EnqueueOnly(Event("$exception", GetOrCreateDistinctId, NoProperties))
     ELSE Rejected

\* alias with the alias of the call: the event goes out under the new id and
\* names the old one, then the new id is stored.
alias_to(new_id) ==
  /\ HostCanCall /\ MutexFree
  /\ UNCHANGED <<lockVars, runVars>> /\ NoReload
  /\ call' = "alias"
  /\ HostFrame /\ UNCHANGED opt_out
  /\ IF ~IsNull(storage_manager)
     THEN /\ distinct_id' = new_id
          /\ nextUuid' = UuidAfterDistinctId
          /\ UNCHANGED <<session_id, super_properties>>
          /\ EnqueueOnly(Event("$create_alias", new_id,
               [k \in {"alias"} |-> GetOrCreateDistinctId]))
     ELSE Rejected

call_alias == alias_to("alias")

call_createNewSession ==
  /\ HostCanCall /\ MutexFree
  /\ UNCHANGED <<lockVars, runVars>> /\ NoReload
  /\ call' = "createNewSession"
  /\ HostFrame /\ UNCHANGED opt_out
  /\ IF ~initialized \/ IsNull(storage_manager)
     THEN Rejected
     ELSE /\ session_id' = GenerateUuid(nextUuid)
          /\ distinct_id' = IF distinct_id = "" THEN GenerateUuid(nextUuid + 1)
                            ELSE distinct_id
          /\ nextUuid' = IF distinct_id = "" THEN nextUuid + 2 ELSE nextUuid + 1
          /\ UNCHANGED super_properties
          /\ EnqueueOnly(Event("$screen",
               IF distinct_id = "" THEN GenerateUuid(nextUuid + 1) ELSE distinct_id,
               SessionEventProperties("Session Started", GenerateUuid(nextUuid))))

\* getSessionId: get_or_create_session_id when there is a store; the value
\* answered is the one the store holds when the call returns.
call_getSessionId ==
  /\ HostCanCall /\ MutexFree
  /\ UNCHANGED <<lockVars, runVars>> /\ NoReload
  /\ call' = "getSessionId"
  /\ HostFrame /\ UNCHANGED <<opt_out, storeVars, distinct_id, super_properties>>
  /\ Quiet
  /\ IF ~IsNull(storage_manager)
     THEN /\ session_id' = GetOrCreateSessionId(nextUuid)
          /\ nextUuid' = UuidAfterSessionId(nextUuid)
     ELSE UNCHANGED <<session_id, nextUuid>>

\* register: SetSuperProperty(key, "\"value\"").
call_register(key, value) ==
  /\ HostCanCall /\ MutexFree
  /\ UNCHANGED <<lockVars, runVars>> /\ NoReload
  /\ call' = "register"
  /\ HostFrame /\ UNCHANGED <<opt_out, storeVars, distinct_id, session_id, nextUuid>>
  /\ Quiet
  /\ super_properties' = IF ~IsNull(storage_manager) /\ DbOpen
                         THEN Put(super_properties, key, value)
                         ELSE super_properties

\* reset: a new distinct id, and every super property removed.
call_reset ==
  /\ HostCanCall /\ MutexFree
  /\ UNCHANGED <<lockVars, runVars>> /\ NoReload
  /\ call' = "reset"
  /\ nextUuid <= MaxUuids
  /\ HostFrame /\ UNCHANGED <<opt_out, storeVars, session_id>>
  /\ Quiet
  /\ IF ~IsNull(storage_manager)
     THEN /\ distinct_id' = GenerateUuid(nextUuid)
          /\ nextUuid' = nextUuid + 1
          /\ super_properties' = NoProperties
     ELSE UNCHANGED <<distinct_id, super_properties, nextUuid>>

call_enable ==
  /\ HostCanCall /\ MutexFree
  /\ UNCHANGED <<lockVars, prevUuid, addPc, handed>>
  /\ settings_opt_out' = (IF DbOpen THEN SetOptOut(FALSE) ELSE settings_opt_out)
  /\ NoReload
  /\ call' = "enable"
  /\ HostFrame /\ UNCHANGED <<storeVars, settingsVars>> /\ Quiet
  /\ opt_out' = FALSE

call_disable ==
  /\ HostCanCall /\ MutexFree
  /\ UNCHANGED <<lockVars, prevUuid, addPc, handed>>
  /\ settings_opt_out' = (IF DbOpen THEN SetOptOut(TRUE) ELSE settings_opt_out)
  /\ NoReload
  /\ call' = "disable"
  /\ HostFrame /\ UNCHANGED <<storeVars, settingsVars>> /\ Quiet
  /\ opt_out' = TRUE

call_flush ==
  /\ HostCanCall /\ MutexFree
  /\ UNCHANGED <<lockVars, runVars>> /\ NoReload
  /\ call' = "flush"
  /\ HostFrame /\ UNCHANGED <<opt_out, nextId, settingsVars>>
  /\ IF initialized /\ ~opt_out /\ ~IsNull(storage_manager)
     THEN DrainAndPost("flush", events)
     ELSE UNCHANGED events /\ Quiet

call_reloadFeatureFlags ==
  /\ HostCanCall /\ MutexFree
  /\ UNCHANGED <<lockVars, runVars>>
  /\ call' = "reloadFeatureFlags"
  /\ HostFrame /\ UNCHANGED <<opt_out, storeVars, session_id, super_properties>>
  /\ IF initialized /\ ~opt_out /\ ~IsNull(storage_manager)
     THEN /\ distinct_id' = GetOrCreateDistinctId
          /\ nextUuid' = UuidAfterDistinctId
          /\ ReloadFeatureFlags(flags_cache)
     ELSE UNCHANGED <<distinct_id, nextUuid>> /\ Quiet /\ NoReload

\* ------------------------------------------------- flush_events_thread
\* What a step of the flush worker leaves alone besides its own variables.
FlushFrame ==
  UNCHANGED <<pluginVars, nextId, now, replayCfg, replayBuf, timer_expired,
              replayThr, closeVars, disposePc, server, settingsVars>>
  /\ call' = "none"

ExitOnFailure(success) == IF success THEN "sleep" ELSE "done"

\* A worker that takes the lock again after a failed POST, without a look at
\* should_flush.
LockAgainOnFailure(success) == IF success THEN "sleep" ELSE "lock"

\* The end of an iteration of flush_events_thread, whatever the response
\* was: back to the test of the loop.
AfterIteration(success) == "sleep"

\* while (should_flush) { sleep_for(flush_interval_seconds);
\* if (!should_flush) break;
FW_Sleep ==
  /\ fpc = "sleep"
  /\ UNCHANGED <<lockVars, runVars>> /\ NoReload
  /\ fpc' = IF should_flush THEN "lock" ELSE "done"
  /\ FlushFrame /\ UNCHANGED <<config_mutex, events, fevents, fresp>> /\ Quiet

\* lock_guard lock(config_mutex); then, under the lock, the pointer check, the
\* opt-out check and GetQueuedEvents.  break and continue release the lock.
FW_Lock ==
  /\ fpc = "lock" /\ MutexFree
  /\ UNCHANGED <<lockVars, runVars>> /\ NoReload
  /\ FlushFrame /\ UNCHANGED <<events, fresp>> /\ Quiet
  /\ IF IsNull(storage_manager) \/ IsNull(http_client)
     THEN fpc' = "done" /\ UNCHANGED <<config_mutex, fevents>>
     ELSE IF opt_out \/ ~initialized
     THEN fpc' = "sleep" /\ UNCHANGED <<config_mutex, fevents>>
     ELSE \E batch \in GetQueuedEvents(events, max_batch_size) :
            IF batch = <<>>
            THEN fpc' = "sleep" /\ UNCHANGED <<config_mutex, fevents>>
            ELSE fpc' = "post" /\ fevents' = batch /\ config_mutex' = "worker"

\* plugin->http_client->PostCapture(event_jsons), still under the lock.
FW_Post ==
  /\ fpc = "post"
  /\ UNCHANGED <<lockVars, runVars>> /\ NoReload
  /\ FlushFrame /\ UNCHANGED events
  /\ IF IsNull(http_client) \/ IsNull(storage_manager)
     THEN /\ fpc' = "done" /\ config_mutex' = "none"
          /\ fevents' = <<>> /\ UNCHANGED fresp /\ Quiet
     ELSE /\ PostCapture("worker", fevents)
          /\ fresp' = ResponseSuccess
          /\ fpc' = "remove"
          /\ UNCHANGED <<config_mutex, fevents>>

\* if (response.success && storage_manager) RemoveEvents(event_ids); the
\* lock_guard is released at the end of the iteration.
FW_Remove ==
  /\ fpc = "remove"
  /\ UNCHANGED <<lockVars, runVars>> /\ NoReload
  /\ FlushFrame /\ Quiet
  /\ events' = IF fresp /\ ~IsNull(storage_manager)
               THEN RemoveEvents(events, Ids(fevents)) ELSE events
  /\ fevents' = <<>> /\ fresp' = FALSE
  /\ config_mutex' = "none"
  /\ fpc' = AfterIteration(fresp)

FlushWorker == FW_Sleep \/ FW_Lock \/ FW_Post \/ FW_Remove

\* ------------------------------------------------- SessionReplayManager
\* What a replay host call leaves alone.
ReplayCallFrame ==
  UNCHANGED <<pluginVars, config_mutex, storeVars, now, flushVars, replayCfg,
              timer_expired, replayThr, closeVars, disposePc, server,
              settingsVars>> /\ Quiet

\* sendFullSnapshot -> AddSnapshot: dropped unless active.
call_sendFullSnapshot ==
  /\ HostCanCall
  /\ UNCHANGED <<lockVars, runVars>> /\ NoReload
  /\ call' = "sendFullSnapshot"
  /\ ReplayCallFrame /\ UNCHANGED meta_event_buffer
  /\ IF ~IsNull(session_replay_manager) /\ is_active
     THEN /\ nextFrame <= MaxFrames
          /\ snapshot_buffer' = Append(snapshot_buffer, nextFrame)
          /\ nextFrame' = nextFrame + 1
     ELSE UNCHANGED <<snapshot_buffer, nextFrame>>

\* sendMetaEvent -> AddMetaEvent: dropped unless active.
call_sendMetaEvent ==
  /\ HostCanCall
  /\ UNCHANGED <<lockVars, runVars>> /\ NoReload
  /\ call' = "sendMetaEvent"
  /\ ReplayCallFrame /\ UNCHANGED snapshot_buffer
  /\ IF ~IsNull(session_replay_manager) /\ is_active
     THEN /\ nextFrame <= MaxFrames
          /\ meta_event_buffer' = Append(meta_event_buffer, nextFrame)
          /\ nextFrame' = nextFrame + 1
     ELSE UNCHANGED <<meta_event_buffer, nextFrame>>

\* What a step of a thread inside AddSnapshot or AddMetaEvent leaves alone.
AddFrame ==
  /\ UNCHANGED <<lockVars, prevUuid, handed, settings_opt_out>> /\ NoReload
  /\ ReplayCallFrame /\ call' = "none"

\* AddSnapshot or AddMetaEvent called on a thread of its own: is_active_ is
\* read before buffer_mutex_ is taken; the call returns when it is false.
AddCheck(kind) ==
  /\ addPc = "idle" /\ session_replay_manager = "live"
  /\ addPc' = IF is_active THEN kind ELSE "idle"
  /\ AddFrame /\ UNCHANGED <<snapshot_buffer, meta_event_buffer, nextFrame>>

\* The rest of the call: lock_guard lock(buffer_mutex_); push_back.
AddAppend ==
  /\ addPc # "idle" /\ session_replay_manager = "live"
  /\ nextFrame <= MaxFrames
  /\ addPc' = "idle"
  /\ AddFrame
  /\ IF addPc = "snapshot"
     THEN /\ snapshot_buffer' = Append(snapshot_buffer, nextFrame)
          /\ UNCHANGED meta_event_buffer
     ELSE /\ meta_event_buffer' = Append(meta_event_buffer, nextFrame)
          /\ UNCHANGED snapshot_buffer
  /\ nextFrame' = nextFrame + 1

ReplayBatchSnapshotsFirst(snapshots, metas, did, sid) ==
  [i \in 1..(Len(metas) + Len(snapshots)) |->
     [event |-> "$snapshot", distinct_id |-> did, session_id |-> sid,
      kind |-> IF i <= Len(snapshots) THEN "snapshot" ELSE "meta",
      frame |-> IF i <= Len(snapshots) THEN snapshots[i] ELSE metas[i - Len(snapshots)]]]

\* The batch SendBatch builds: meta events first, then snapshots, each a
\* $snapshot event under the distinct id and the session id read for the batch.
ReplayBatch(snapshots, metas, did, sid) ==
  [i \in 1..(Len(metas) + Len(snapshots)) |->
     [event |-> "$snapshot", distinct_id |-> did, session_id |-> sid,
      kind |-> IF i <= Len(metas) THEN "meta" ELSE "snapshot",
      frame |-> IF i <= Len(metas) THEN metas[i] ELSE snapshots[i - Len(metas)]]]

\* SendBatch: returns early on an empty batch or a null http_client_; reads
\* the distinct id (an empty one is replaced and stored) and the session id
\* (an empty one is replaced for this batch only), and posts the payload.
SendBatch(src, snapshots, metas) ==
  IF (snapshots = <<>> /\ metas = <<>>) \/ IsNull(http_client)
  THEN Quiet /\ UNCHANGED settingsVars
  ELSE /\ PostOther(src, ReplayBatch(snapshots, metas, GetOrCreateDistinctId,
                      IF session_id = "" THEN "session_fallback" ELSE session_id))
       /\ distinct_id' = GetOrCreateDistinctId
       /\ nextUuid' = UuidAfterDistinctId
       /\ UNCHANGED <<session_id, super_properties>>

ReplayFrame ==
  UNCHANGED <<pluginVars, config_mutex, storeVars, now, flushVars, replayCfg,
              nextFrame, closeVars, disposePc, server>> /\ call' = "none"

\* static_cast<size_t>(n) of an int n: n modulo 2^64, so a negative n becomes
\* larger than the length of any buffer.  The modulus is written 2^30 here,
\* which is as far above every length and every batch size of the model.
SizeT(n) == n % (2^30)

NotCleared(buffer) == buffer

\* buffer.clear() once the buffer has been copied into a local.
Cleared(buffer) == <<>>

ShouldSendAnyBufferedEvent ==
  snapshot_buffer # <<>> \/ meta_event_buffer # <<>>

\* The decision to send, taken under buffer_mutex_: the size of the snapshot
\* buffer is compared with batch_size_ converted to size_t.
ShouldSend ==
  \/ Len(snapshot_buffer) >= SizeT(batch_size)
  \/ timer_expired /\ snapshot_buffer # <<>>

\* while (should_flush_) { sleep 100 ms; the checks of should_flush_,
\* is_active_ and http_client_; then, under buffer_mutex_, the decision and
\* the move of both buffers into locals.
RW_Sleep ==
  /\ rpc = "sleep"
  /\ UNCHANGED <<lockVars, runVars>> /\ NoReload
  /\ ReplayFrame /\ Quiet /\ UNCHANGED settingsVars
  /\ IF ~r_should_flush
     THEN /\ rpc' = "done"
          /\ UNCHANGED <<snapshot_buffer, meta_event_buffer, timer_expired,
                         rsnapshots, rmeta>>
     ELSE IF ~is_active
     THEN UNCHANGED <<rpc, snapshot_buffer, meta_event_buffer, timer_expired,
                      rsnapshots, rmeta>>
     ELSE IF IsNull(http_client)
     THEN /\ rpc' = "done"
          /\ UNCHANGED <<snapshot_buffer, meta_event_buffer, timer_expired,
                         rsnapshots, rmeta>>
     ELSE IF ShouldSend
     THEN /\ rsnapshots' = snapshot_buffer /\ rmeta' = meta_event_buffer
          /\ snapshot_buffer' = Cleared(snapshot_buffer)
          /\ meta_event_buffer' = Cleared(meta_event_buffer)
          /\ timer_expired' = FALSE
          /\ rpc' = "send"
     ELSE UNCHANGED <<rpc, snapshot_buffer, meta_event_buffer, timer_expired,
                      rsnapshots, rmeta>>

\* SendBatch(snapshots, meta_events) outside the buffer lock.
RW_Send ==
  /\ rpc = "send"
  /\ UNCHANGED <<lockVars, prevUuid, addPc, settings_opt_out>>
  /\ handed' = handed \cup Range(rsnapshots) \cup Range(rmeta)
  /\ NoReload
  /\ ReplayFrame
  /\ UNCHANGED <<snapshot_buffer, meta_event_buffer, timer_expired>>
  /\ SendBatch("replay", rsnapshots, rmeta)
  /\ rsnapshots' = <<>> /\ rmeta' = <<>>
  /\ rpc' = "sleep"

ReplayWorker == RW_Sleep \/ RW_Send

\* ---------------------------------------------------------------- close
FlushThreadNotAwaited == TRUE

\* std::thread::join returns once the thread function has returned (a thread
\* that was never started, or was joined before, is not joinable).
FlushThreadJoined == fpc \in {"none", "done"}

ReplayThreadJoined == rpc \in {"none", "done"}

\* close: should_flush = false under the config mutex.
call_close ==
  /\ HostCanCall /\ MutexFree
  /\ UNCHANGED <<lockVars, runVars>> /\ NoReload
  /\ call' = "close"
  /\ should_flush' = FALSE
  /\ closeCalled' = (closeCalled \/ initialized)
  /\ closePc' = "join"
  /\ UNCHANGED <<initialized, opt_out, flush_at, max_batch_size,
                 storage_manager, http_client, session_replay_manager,
                 config_mutex, storeVars, now, flushVars, replayCfg, replayBuf,
                 timer_expired, replayThr, closeReturned, disposePc, server,
                 settingsVars>> /\ Quiet

\* close: flush_thread.join() after the lock is released, then return.
close_join ==
  /\ closePc = "join"
  /\ UNCHANGED <<lockVars, runVars>> /\ NoReload
  /\ FlushThreadJoined
  /\ closePc' = "idle"
  /\ closeReturned' = closeCalled
  /\ UNCHANGED <<pluginVars, config_mutex, storeVars, now, flushVars,
                 replayCfg, replayBuf, timer_expired, replayThr, closeCalled,
                 disposePc, server, settingsVars>> /\ call' = "none" /\ Quiet

\* ------------------------------------- posthog_flutter_plugin_dispose
DisposeFrame ==
  UNCHANGED <<initialized, opt_out, flush_at, max_batch_size, config_mutex,
              storeVars, now, flushVars, batch_size, nextFrame, timer_expired,
              replayThr, closeVars, server>> /\ call' = "none"

\* should_flush = false under the config mutex.
D_Begin ==
  /\ disposePc = "none" /\ closePc = "idle" /\ MutexFree
  /\ UNCHANGED <<lockVars, runVars>> /\ NoReload
  /\ should_flush' = FALSE
  /\ disposePc' = "replay_stop"
  /\ DisposeFrame
  /\ UNCHANGED <<storage_manager, http_client, session_replay_manager,
                 r_should_flush, is_active, snapshot_buffer, meta_event_buffer>> /\ Quiet /\ UNCHANGED settingsVars

\* if (session_replay_manager) SetActive(false);
D_SetActive ==
  /\ disposePc = "replay_stop"
  /\ UNCHANGED <<lockVars, runVars>> /\ NoReload
  /\ DisposeFrame
  /\ UNCHANGED <<should_flush, storage_manager, http_client,
                 session_replay_manager, r_should_flush, snapshot_buffer,
                 meta_event_buffer>> /\ Quiet /\ UNCHANGED settingsVars
  /\ IF IsNull(session_replay_manager)
     THEN disposePc' = "join_flush" /\ UNCHANGED is_active
     ELSE disposePc' = "replay_flush" /\ is_active' = FALSE

\* session_replay_manager->Flush(): both buffers are taken and sent.
D_ReplayFlush ==
  /\ disposePc = "replay_flush"
  /\ UNCHANGED <<lockVars, prevUuid, addPc, settings_opt_out>>
  /\ handed' = (IF IsNull(http_client) THEN handed
                ELSE handed \cup Range(snapshot_buffer) \cup Range(meta_event_buffer))
  /\ NoReload
  /\ DisposeFrame
  /\ UNCHANGED <<should_flush, storage_manager, http_client,
                 session_replay_manager, r_should_flush, is_active>>
  /\ IF IsNull(http_client)
     THEN /\ UNCHANGED <<snapshot_buffer, meta_event_buffer, settingsVars>>
          /\ Quiet
     ELSE /\ snapshot_buffer' = Cleared(snapshot_buffer)
          /\ meta_event_buffer' = Cleared(meta_event_buffer)
          /\ SendBatch("replay_flush", snapshot_buffer, meta_event_buffer)
  /\ disposePc' = "replay_dtor"

\* ~SessionReplayManager: should_flush_ = false; is_active_ = false.
D_ReplayDtor ==
  /\ disposePc = "replay_dtor"
  /\ UNCHANGED <<lockVars, runVars>> /\ NoReload
  /\ DisposeFrame
  /\ r_should_flush' = FALSE /\ is_active' = FALSE
  /\ disposePc' = "replay_join"
  /\ UNCHANGED <<should_flush, storage_manager, http_client,
                 session_replay_manager, snapshot_buffer, meta_event_buffer>> /\ Quiet /\ UNCHANGED settingsVars

\* ~SessionReplayManager: flush_thread_.join(); the buffers are abandoned
\* with the object.
D_ReplayJoin ==
  /\ disposePc = "replay_join"
  /\ UNCHANGED <<lockVars, runVars>> /\ NoReload
  /\ ReplayThreadJoined
  /\ DisposeFrame
  /\ session_replay_manager' = "released"
  /\ snapshot_buffer' = <<>> /\ meta_event_buffer' = <<>>
  /\ disposePc' = "join_flush"
  /\ UNCHANGED <<should_flush, storage_manager, http_client, r_should_flush,
                 is_active>> /\ Quiet /\ UNCHANGED settingsVars

\* if (flush_thread.joinable()) flush_thread.join();
D_JoinFlush ==
  /\ disposePc = "join_flush"
  /\ UNCHANGED <<lockVars, runVars>> /\ NoReload
  /\ FlushThreadJoined
  /\ DisposeFrame
  /\ disposePc' = "close_store"
  /\ UNCHANGED <<should_flush, storage_manager, http_client,
                 session_replay_manager, r_should_flush, is_active,
                 snapshot_buffer, meta_event_buffer>> /\ Quiet /\ UNCHANGED settingsVars

\* storage_manager->Close(); delete storage_manager;
D_CloseStore ==
  /\ disposePc = "close_store"
  /\ UNCHANGED <<lockVars, runVars>> /\ NoReload
  /\ DisposeFrame
  /\ storage_manager' = IF IsNull(storage_manager) THEN storage_manager
                        ELSE "released"
  /\ disposePc' = "release_http"
  /\ UNCHANGED <<should_flush, http_client, session_replay_manager,
                 r_should_flush, is_active, snapshot_buffer, meta_event_buffer>> /\ Quiet /\ UNCHANGED settingsVars

\* delete http_client; delete feature_flags_manager;
D_ReleaseHttp ==
  /\ disposePc = "release_http"
  /\ UNCHANGED <<lockVars, runVars>> /\ NoReload
  /\ DisposeFrame
  /\ http_client' = IF IsNull(http_client) THEN http_client ELSE "released"
  /\ disposePc' = "done"
  /\ UNCHANGED <<should_flush, storage_manager, session_replay_manager,
                 r_should_flush, is_active, snapshot_buffer, meta_event_buffer>> /\ Quiet /\ UNCHANGED settingsVars

Dispose ==
  \/ D_Begin \/ D_SetActive \/ D_ReplayFlush \/ D_ReplayDtor \/ D_ReplayJoin
  \/ D_JoinFlush \/ D_CloseStore \/ D_ReleaseHttp

\* ---------------------------------------------------------- environment
EnvFrame ==
  UNCHANGED <<pluginVars, config_mutex, storeVars, flushVars, replayCfg,
              replayBuf, replayThr, closeVars, disposePc, settingsVars>>
  /\ call' = "none" /\ Quiet

\* time(nullptr) advances by a second.
Tick ==
  /\ now < MaxTime
  /\ UNCHANGED <<lockVars, runVars>> /\ NoReload
  /\ now' = now + 1
  /\ EnvFrame /\ UNCHANGED <<timer_expired, server>>

\* batch_interval_ms_ has elapsed since last_batch_time_.
TimerExpire ==
  /\ ~IsNull(session_replay_manager) /\ ~timer_expired
  /\ UNCHANGED <<lockVars, runVars>> /\ NoReload
  /\ timer_expired' = TRUE
  /\ EnvFrame /\ UNCHANGED <<now, server>>

\* The server starts to answer differently.
ServerChange(m) ==
  /\ m # server
  /\ UNCHANGED <<lockVars, runVars>> /\ NoReload
  /\ server' = m
  /\ EnvFrame /\ UNCHANGED <<now, timer_expired>>

\* A setup call with arguments from Args.  On an initialised plugin setup
\* returns before it reads any of them: one call with a map, a key and
\* working storage stands there for every call.
Setup(Args) ==
  IF initialized
  THEN handle_setup(CHOOSE a \in Args : a.map /\ a.apiKey # "" /\ a.env = "ok")
  ELSE \E a \in Args : handle_setup(a)

\* The server gives another body to /decide.
DecideChange(b) ==
  /\ b # decide_body
  /\ UNCHANGED <<lockVars, runVars>>
  /\ decide_body' = b /\ reload_result' = "none"
  /\ UNCHANGED <<flags_cache, feature_flags>>
  /\ EnvFrame /\ UNCHANGED <<now, timer_expired, server>>

\* The process has ended after dispose and a new one starts on the same
\* database: posthog_flutter_plugin_init gives every member its initial
\* value, the tables keep their rows.
Restart ==
  /\ disposePc = "done" /\ prevUuid = 0
  /\ prevUuid' = nextUuid
  /\ initialized' = FALSE /\ opt_out' = FALSE /\ should_flush' = FALSE
  /\ flush_at' = DefaultFlushAt /\ max_batch_size' = DefaultMaxBatchSize
  /\ storage_manager' = "null" /\ http_client' = "null"
  /\ session_replay_manager' = "null" /\ config_mutex' = "none"
  /\ fpc' = "none" /\ fevents' = <<>> /\ fresp' = FALSE
  /\ r_should_flush' = FALSE /\ is_active' = FALSE
  /\ batch_size' = DefaultBatchSize
  /\ snapshot_buffer' = <<>> /\ meta_event_buffer' = <<>>
  /\ timer_expired' = FALSE
  /\ rpc' = "none" /\ rsnapshots' = <<>> /\ rmeta' = <<>>
  /\ closePc' = "idle" /\ disposePc' = "none"
  /\ closeCalled' = FALSE /\ closeReturned' = FALSE
  /\ flags_cache' = NoFlags /\ reload_result' = "none"
  /\ call' = "none" /\ Quiet
  /\ addPc' = "idle" /\ handed' = {}
  /\ UNCHANGED <<storeVars, settingsVars, feature_flags, decide_body, now,
                 server, nextFrame, lockVars, settings_opt_out>>

\* The event pipeline: setup, capture, the explicit flush, opt-out, close,
\* the flush worker and the server.
Next ==
  \/ Setup(EventSetups)
  \/ \E name \in EventNames : handle_capture(name)
  \/ call_flush
  \/ call_enable
  \/ call_disable
  \/ call_reloadFeatureFlags
  \/ call_close
  \/ close_join
  \/ FlushWorker
  \/ Tick
  \/ \E m \in ServerModes : ServerChange(m)

Spec == Init /\ [][Next]_vars

\* The method surface: every call that can put a row into the queue, with
\* opt-out and close, and the flush worker.
NextSurface ==
  \/ Setup(EventSetups)
  \/ \E name \in EventNames : handle_capture(name)
  \/ handle_identify
  \/ handle_screen
  \/ call_group
  \/ call_captureException
  \/ call_alias
  \/ call_createNewSession
  \/ call_enable
  \/ call_disable
  \/ call_close
  \/ close_join
  \/ FlushWorker

SurfaceSpec == Init /\ [][NextSurface]_vars

\* The life cycle: setup with session replay, both workers, close and dispose.
NextLife ==
  \/ Setup(ReplaySetups)
  \/ \E name \in EventNames : handle_capture(name)
  \/ call_disable
  \/ call_flush
  \/ call_sendFullSnapshot
  \/ call_sendMetaEvent
  \/ call_close
  \/ close_join
  \/ FlushWorker
  \/ ReplayWorker
  \/ Dispose
  \/ TimerExpire

LifeSpec == Init /\ [][NextLife]_vars

\* The properties a capture call passes: none, or one member.
CallerProperties ==
  {NoProperties} \cup {[k \in {key} |-> "caller"] : key \in SuperKeys}

\* A server that answers 2xx, for what the events carry.
InitContent == Init /\ server = "ok"

\* The content of events: setup and every call that builds an event, with
\* the inline flush of capture and no flush worker in between.
NextContent ==
  \/ Setup(ContentSetups)
  \/ \E name \in CaptureNames : handle_capture(name)
  \/ \E user_id \in UserIds : identify_user(user_id)
  \/ handle_screen
  \/ call_group
  \/ call_captureException
  \/ \E new_id \in UserIds : alias_to(new_id)
  \/ call_createNewSession
  \/ Tick

ContentSpec == InitContent /\ [][NextContent]_vars

\* The properties of captured events: register, reset and capture calls that
\* pass properties.
NextProperty ==
  \/ Setup(LiveSetups)
  \/ \E properties \in CallerProperties : capture_event("hello", properties)
  \/ \E key \in SuperKeys : call_register(key, "super")
  \/ call_reset
  \/ call_flush

PropertySpec == InitContent /\ [][NextProperty]_vars

\* The session id: the calls that read or rotate it among the calls and the
\* workers that use it.
NextSession ==
  \/ Setup(ReplaySetups)
  \/ handle_capture("hello")
  \/ handle_identify
  \/ call_alias
  \/ call_reset
  \/ call_flush
  \/ call_getSessionId
  \/ call_createNewSession
  \/ call_sendFullSnapshot
  \/ FlushWorker
  \/ ReplayWorker

SessionSpec == InitContent /\ [][NextSession]_vars

\* A responsive server and an agent that is set up and never opted out or
\* closed: capture and flush calls against a flush worker that is scheduled
\* again and again (its sleep ends, the mutex it waits for is released).
InitLive == Init /\ server = "ok"

NextLive ==
  \/ Setup(LiveSetups)
  \/ \E name \in EventNames : handle_capture(name)
  \/ call_flush
  \/ FlushWorker
  \/ Tick

LiveSpec == InitLive /\ [][NextLive]_vars /\ WF_vars(FlushWorker)

\* The replay pipeline: the calls that fill its buffers and its worker, which
\* evaluates every 100 ms for as long as its thread runs.
NextReplay ==
  \/ Setup(BatchSizeSetups)
  \/ call_sendMetaEvent
  \/ call_sendFullSnapshot
  \/ call_getSessionId
  \/ ReplayWorker
  \/ TimerExpire
  \/ \E m \in ServerModes : ServerChange(m)

ReplaySpec == Init /\ [][NextReplay]_vars /\ WF_vars(ReplayWorker)

\* The replay pipeline with add calls made on a thread other than the
\* platform thread, against the worker and against dispose.
NextAdder ==
  \/ Setup(ReplaySetups)
  \/ \E kind \in {"snapshot", "meta"} : AddCheck(kind)
  \/ AddAppend
  \/ ReplayWorker
  \/ FlushWorker
  \/ TimerExpire
  \/ Dispose

AdderSpec == InitContent /\ [][NextAdder]_vars

\* The three senders of capture batches under every kind of maxBatchSize.
NextBatch ==
  \/ Setup(BatchLimitSetups)
  \/ \E name \in EventNames : handle_capture(name)
  \/ call_flush
  \/ FlushWorker
  \/ \E m \in ServerModes : ServerChange(m)

BatchSpec == Init /\ [][NextBatch]_vars

\* Shutdown: close and dispose against both workers at every point of their
\* iteration, with host calls before them and a server that may fail.  Each
\* thread that can take a step eventually takes one: the two workers, the
\* thread waiting in close's join, and dispose once it has begun; every POST
\* returns.
NextShutdown ==
  \/ Setup(ShutdownSetups)
  \/ \E name \in EventNames : handle_capture(name)
  \/ call_sendFullSnapshot
  \/ call_close
  \/ close_join
  \/ FlushWorker
  \/ ReplayWorker
  \/ Dispose
  \/ \E m \in ServerModes : ServerChange(m)

DisposeBegun == Dispose /\ disposePc # "none"

ShutdownSpec ==
  /\ Init /\ [][NextShutdown]_vars
  /\ WF_vars(FlushWorker) /\ WF_vars(ReplayWorker)
  /\ WF_vars(close_join) /\ WF_vars(DisposeBegun)

\* Feature flags: setup, which builds the manager and may preload, the reload
\* call, and a server that answers /decide with any body in any mode.
NextFlags ==
  \/ Setup(FlagSetups)
  \/ call_reloadFeatureFlags
  \/ \E b \in DecideBodies : DecideChange(b)
  \/ \E m \in ServerModes : ServerChange(m)

FlagSpec == Init /\ [][NextFlags]_vars

\* Two runs of the agent on one database: setup, the calls that read or
\* change the ids, dispose, and the start of the next process.
NextRestart ==
  \/ Setup(RestartSetups)
  \/ handle_identify
  \/ call_getSessionId
  \/ call_createNewSession
  \/ call_sendFullSnapshot
  \/ FlushWorker
  \/ ReplayWorker
  \/ Dispose
  \/ Restart

RestartSpec == InitContent /\ [][NextRestart]_vars

\* ---------------------------------------------------------------------------
\* Mutexes and threads, one step per acquisition
\* ---------------------------------------------------------------------------

\* std::lock_guard on mutex l around the steps of body.
Under(l, body) ==
  <<[op |-> "lock", arg |-> l]>> \o body \o <<[op |-> "unlock", arg |-> l]>>

\* A call of a StorageManager method: each takes mutex_ for its whole body.
StoreCall == Under("mutex_", <<>>)

\* A call of HttpClient::PerformPost or SetDebug: each takes curl_mutex_ for
\* its whole body.
TransportCall == Under("curl_mutex_", <<>>)

\* A block of SessionReplayManager that takes buffer_mutex_ and calls nothing
\* that locks: AddSnapshot, AddMetaEvent, the copy of the buffers in
\* FlushThread and in Flush.
BufferBlock == Under("buffer_mutex_", <<>>)

\* SessionReplayManager::SendBatch: the ids are read from the store, then the
\* batch is posted.
SendBatchSteps == StoreCall \o TransportCall

\* handle_setup: storage, transport, the replay manager when enabled, whose
\* constructor starts FlushThread, the ids, the preload of the feature flags,
\* the flush thread, the session event.
SetupSteps ==
  { StoreCall \o TransportCall \o replay \o StoreCall \o preload
      \o <<[op |-> "start", arg |-> "flush_thread"]>> \o StoreCall :
    replay \in {<<>>, <<[op |-> "start", arg |-> "flush_thread_"]>>},
    preload \in {<<>>, TransportCall \o StoreCall} }

\* The method calls that hold config_mutex for their whole body: those that
\* return early, those that call the store (identify, screen, register,
\* reset, getSessionId, ...), debug, which calls HttpClient::SetDebug, and
\* those that call the store, post and call the store again (capture with
\* its inline flush, flush, reloadFeatureFlags).
LockedCallSteps ==
  { Under("config_mutex", <<>>),
    Under("config_mutex", StoreCall),
    Under("config_mutex", TransportCall),
    Under("config_mutex", StoreCall \o TransportCall \o StoreCall) }

CloseStepsJoinUnderMutex ==
  Under("config_mutex", <<[op |-> "stop", arg |-> "flush_thread"],
                          [op |-> "join", arg |-> "flush_thread"]>>)

\* close: should_flush is cleared under config_mutex, the flush thread is
\* joined after the mutex was released.
CloseSteps ==
  Under("config_mutex", <<[op |-> "stop", arg |-> "flush_thread"]>>)
    \o <<[op |-> "join", arg |-> "flush_thread"]>>

\* dispose: should_flush is cleared under config_mutex; the replay manager, if
\* there is one, flushes its buffers and its destructor clears should_flush_
\* under buffer_mutex_ and joins FlushThread; the flush thread is joined; the
\* store is closed.
DisposeSteps ==
  { Under("config_mutex", <<[op |-> "stop", arg |-> "flush_thread"]>>)
      \o (IF thread["flush_thread_"] # "none"
          THEN BufferBlock \o send
               \o Under("buffer_mutex_", <<[op |-> "stop", arg |-> "flush_thread_"]>>)
               \o <<[op |-> "join", arg |-> "flush_thread_"]>>
          ELSE <<>>)
      \o <<[op |-> "join", arg |-> "flush_thread"]>>
      \o (IF thread["flush_thread"] # "none" THEN StoreCall ELSE <<>>)
      \o <<[op |-> "exit", arg |-> "platform"]>> :
    send \in {<<>>, SendBatchSteps} }

\* What the platform thread can be asked to do next.
PlatformSteps ==
  IF thread["flush_thread"] = "none"
  THEN SetupSteps \cup {Under("config_mutex", <<>>), CloseSteps} \cup DisposeSteps
  ELSE LockedCallSteps \cup {CloseSteps} \cup DisposeSteps
         \cup (IF thread["flush_thread_"] # "none" THEN {BufferBlock} ELSE {})

\* One iteration of flush_events_thread after its sleep: config_mutex is held
\* to the end of the iteration, which ends at the checks, after the query,
\* after a failed POST or after the rows were removed.
FlushIterations ==
  { Under("config_mutex", <<>>),
    Under("config_mutex", StoreCall),
    Under("config_mutex", StoreCall \o TransportCall),
    Under("config_mutex", StoreCall \o TransportCall \o StoreCall) }

\* One iteration of SessionReplayManager::FlushThread after its sleep.
ReplayIterations == { BufferBlock, BufferBlock \o SendBatchSteps }

Iterations(t) == IF t = "flush_thread" THEN FlushIterations ELSE ReplayIterations

LockFrame ==
  UNCHANGED <<pluginVars, config_mutex, storeVars, now, flushVars, replayCfg,
              replayBuf, timer_expired, replayThr, closeVars, disposePc, server,
              call, wire, ackCount, settingsVars, flagVars, runVars>>

\* The platform thread starts a method call or dispose.
PlatformCall ==
  /\ thread["platform"] = "run" /\ todo["platform"] = <<>>
  /\ \E steps \in PlatformSteps : todo' = [todo EXCEPT !["platform"] = steps]
  /\ UNCHANGED <<owner, thread, flushing>>
  /\ LockFrame

\* A background thread tests its should_flush flag at the top of its loop:
\* it returns when the flag is clear and runs an iteration otherwise. The
\* flag is a plain bool the platform thread writes; a test that races with
\* the write sees the value before or after it, as the test taken before or
\* after the step that writes.
LoopTest(t) ==
  /\ thread[t] = "run" /\ todo[t] = <<>>
  /\ \/ /\ ~flushing[t]
        /\ thread' = [thread EXCEPT ![t] = "done"]
        /\ UNCHANGED todo
     \/ /\ flushing[t]
        /\ \E steps \in Iterations(t) : todo' = [todo EXCEPT ![t] = steps]
        /\ UNCHANGED thread
  /\ UNCHANGED <<owner, flushing>>
  /\ LockFrame

\* A thread takes its next step: it acquires a mutex that is free, releases
\* one, clears or sets the flag of a thread, starts a thread, or returns from
\* join() of a thread that is not running.
ThreadStep(t) ==
  /\ thread[t] = "run" /\ todo[t] # <<>>
  /\ LET step == Head(todo[t]) IN
       /\ step.op = "lock" => owner[step.arg] = "none"
       /\ step.op = "join" => thread[step.arg] # "run"
       /\ owner' = CASE step.op = "lock" -> [owner EXCEPT ![step.arg] = t]
                     [] step.op = "unlock" -> [owner EXCEPT ![step.arg] = "none"]
                     [] OTHER -> owner
       /\ flushing' = CASE step.op = "stop" -> [flushing EXCEPT ![step.arg] = FALSE]
                        [] step.op = "start" -> [flushing EXCEPT ![step.arg] = TRUE]
                        [] OTHER -> flushing
       /\ thread' = CASE step.op = "start" -> [thread EXCEPT ![step.arg] = "run"]
                      [] step.op = "exit" -> [thread EXCEPT ![t] = "done"]
                      [] OTHER -> thread
  /\ todo' = [todo EXCEPT ![t] = Tail(todo[t])]
  /\ LockFrame

NextLock ==
  \/ PlatformCall
  \/ \E t \in Threads \ {"platform"} : LoopTest(t)
  \/ \E t \in Threads : ThreadStep(t)

LockSpec == Init /\ [][NextLock]_vars

\* ---------------------------------------------------------------------------
\* Properties
\* ---------------------------------------------------------------------------

\* The ids of the rows some capture POST answered 2xx has carried.
AckedIds == {i \in DOMAIN ackCount : ackCount[i] >= 1}

\* The calls of the method surface that build an event.
EventCalls ==
  {"capture", "identify", "screen", "group", "alias", "captureException",
   "createNewSession"}

\* C1: with the agent initialised and not opted out, a server that answers
\* every POST with 2xx and a fairly scheduled flush worker, once the host has
\* made the last of its calls a non-empty queue is eventually empty.
C1_QueueEventuallyEmpty ==
  <>[](call = "none") =>
    ((initialized /\ ~opt_out /\ events # <<>>) ~> (events = <<>>))

\* C2: a row leaves the queue only in a step after which a 2xx answer to a
\* batch holding its id has been received; while no batch has been answered
\* 2xx (transport errors and non-2xx answers included) the queue never shrinks.
C2_RemovedOnlyAfter2xx ==
  [][ /\ Ids(events) \ Ids(events') \subseteq {i \in DOMAIN ackCount : ackCount'[i] >= 1}
      /\ ((\A i \in DOMAIN ackCount : ackCount'[i] = 0) => Len(events') >= Len(events)) ]_vars

\* A row has been acknowledged and deleted while the server has since begun to
\* fail and holds back the rows that came after.
C2_RemovedAfterAck ==
  /\ \E i \in AckedIds : i \notin Ids(events)
  /\ \E r \in Range(events) : ackCount[r.id] = 0
  /\ server # "ok"

\* C3: while opt-out is true no call of the method surface adds a row to the
\* queue.
C3_NoRowWhileOptedOut ==
  [][ (opt_out \/ opt_out') => nextId' = nextId ]_vars

\* C4: while opt-out is true no component issues an HTTP request.
C4_NoRequestWhileOptedOut ==
  wire.src # "none" => ~wire.opt_out

C6_QuietAfterClose ==
  closeReturned =>
    /\ fpc \in {"none", "done"}
    /\ rpc \in {"none", "done"}
    /\ (wire.src # "none" => ~wire.after_close)

\* C7: once close has been called on the initialised agent, no capture,
\* identify, screen, group, alias, captureException or createNewSession call
\* adds a row to the queue.
C7_NoRowAfterClose ==
  [][ (closeCalled /\ call' \in EventCalls) => nextId' = nextId ]_vars

\* C8: the store and the transport are released only after the flush worker
\* and the replay worker have both been joined.
C8_ReleasedAfterJoin ==
  (storage_manager = "released" \/ http_client = "released") =>
    (fpc \in {"none", "done"} /\ rpc \in {"none", "done"})

\* Disposal of an agent that ran both workers has finished.
C8_Disposed ==
  /\ disposePc = "done"
  /\ storage_manager = "released" /\ http_client = "released"
  /\ fpc = "done" /\ rpc = "done"

\* C9: the final flush of the replay manager runs only after active and
\* shouldFlush have been set to false and the replay worker has been joined.
C9_FinalFlushAfterJoin ==
  disposePc = "replay_flush" =>
    (~is_active /\ ~r_should_flush /\ rpc \in {"none", "done"})

\* C10: no row id is carried by two batches that were both answered 2xx, and
\* an acknowledged row is still in the queue only while the flush that sent
\* it holds the mutex and is about to delete it.
C10_AckedAtMostOnce ==
  /\ \A i \in DOMAIN ackCount : ackCount[i] <= 1
  /\ (\E r \in Range(events) : ackCount[r.id] >= 1)
       => (fpc = "remove" /\ config_mutex = "worker")

\* The worker holds an acknowledged batch it has yet to delete, after an
\* earlier batch was acknowledged and deleted.
C10_SecondAckedBatch ==
  /\ fpc = "remove" /\ fresp
  /\ \E i \in AckedIds : i \notin Ids(events)
  /\ \E r \in Range(events) : ackCount[r.id] = 1

\* C11: the flush worker does not hold the config mutex while its POST is in
\* progress.
C11_NoMutexAcrossPost ==
  wire.src = "worker" => config_mutex # "worker"

\* The second capture call after a setup with flushAt = 3: the queue holds the
\* session event of setup and the first captured event.
SecondCaptureAtThree ==
  /\ call' = "capture"
  /\ initialized /\ ~opt_out /\ flush_at = 3
  /\ nextId = 3 /\ Len(events) = 2
  /\ events[1].event = "$screen" /\ events[2].event \in CaptureNames

C14_ScreenThenHello ==
  [][ ( /\ call = "setup" /\ call' = "capture"
        /\ initialized /\ ~opt_out /\ flush_at = 1
        /\ nextId = 2 /\ Len(events) = 1 )
        => /\ wire'.src = "inline"
           /\ Len(wire'.batch) = 2
           /\ wire'.batch[1].id = 1 /\ wire'.batch[1].event = "$screen"
           /\ wire'.batch[1].props["$screen_name"] = "App Started"
           /\ wire'.batch[2].id = 2 /\ wire'.batch[2].event \in CaptureNames
           /\ wire'.batch[1].distinct_id = wire'.batch[2].distinct_id
           /\ wire'.batch[1].props["$session_id"] = wire'.batch[2].props["$session_id"]
    ]_vars

\* C15: on an initialised agent the session id getSessionId answers stays the
\* same over every step other than createNewSession, and every
\* createNewSession changes it.
C15_SessionIdStable ==
  [][ initialized =>
        /\ (call' # "createNewSession" => session_id' = session_id)
        /\ (call' = "getSessionId" => session_id' # "")
        /\ (call' = "createNewSession" => session_id' # session_id) ]_vars

\* getSessionId has answered after the session was rotated and events were
\* captured and sent.
C15_AnsweredAfterRotation ==
  /\ call = "getSessionId" /\ initialized /\ session_id # ""
  /\ nextUuid > 3 /\ nextId > 3
  /\ \E i \in DOMAIN ackCount : ackCount[i] >= 1

\* C16: every queued event carries a non-empty $session_id.
C16_EveryEventHasSessionId ==
  \A r \in Range(events) :
    "$session_id" \in DOMAIN r.props /\ r.props["$session_id"] # ""

\* C17: no event on the wire has an empty event name or an empty distinct_id.
C17_NoEmptyNameOrId ==
  \A i \in DOMAIN wire.batch :
    wire.batch[i].event # "" /\ wire.batch[i].distinct_id # ""

\* The reserved library properties.
ReservedKeys ==
  {"$lib", "$lib_version", "$device_type", "$os", "$os_version",
   "$screen_width", "$screen_height", "$session_id", "$window_id"}

\* A capture call has built an event and enqueued it.
CaptureEnqueues == call' = "capture" /\ nextId' = nextId + 1

\* The row a capture step has enqueued, still queued or already posted.
CapturedRow ==
  CHOOSE r \in Range(events') \cup Range(wire'.batch) : r.id = nextId

\* C18: a captured event carries every registered super property with its
\* registered value, except under a reserved key, where it carries the
\* library's value.
C18_SuperPropertiesCarried ==
  [][ CaptureEnqueues =>
        \A k \in DOMAIN super_properties :
          /\ k \in DOMAIN CapturedRow.props
          /\ CapturedRow.props[k] =
               IF k \in ReservedKeys
               THEN Put(WithSessionId(LibraryProperties, session_id),
                        "$window_id", "main")[k]
               ELSE super_properties[k] ]_vars

\* C19: in a captured event every key that was set before the caller's
\* properties were merged keeps the value it had then.
C19_CallerNeverOverwrites ==
  [][ CaptureEnqueues =>
        \A k \in DOMAIN PropertiesBeforeCaller(session_id) :
          CapturedRow.props[k] = PropertiesBeforeCaller(session_id)[k] ]_vars

\* C20: the rows of every posted batch of events are in the order of
\* (created_at, id).
C20_BatchOrderedByTimeThenId ==
  wire.src \in {"worker", "inline", "flush"} =>
    \A i, j \in DOMAIN wire.batch :
      i < j =>
        \/ wire.batch[i].created_at < wire.batch[j].created_at
        \/ /\ wire.batch[i].created_at = wire.batch[j].created_at
           /\ wire.batch[i].id < wire.batch[j].id

\* The place of each mutex in the locking order.
LockRank(l) ==
  CASE l = "config_mutex" -> 1
    [] l = "buffer_mutex_" -> 2
    [] l = "mutex_" -> 3
    [] l = "curl_mutex_" -> 4

\* The thread t cannot go on before this thread has acted: the owner of the
\* mutex t is about to acquire, or the running thread t is about to join.
WaitsFor(t) ==
  IF thread[t] # "run" \/ todo[t] = <<>> THEN "none"
  ELSE LET step == Head(todo[t]) IN
         IF step.op = "lock" THEN owner[step.arg]
         ELSE IF step.op = "join" /\ thread[step.arg] = "run" THEN step.arg
         ELSE "none"

\* The thread t has a next step it can take.
CanStep(t) ==
  /\ thread[t] = "run" /\ WaitsFor(t) = "none"
  /\ t = "platform" => todo[t] # <<>>

\* The thread t can take a step, or waits for a thread that can, through at
\* most n waits.
RECURSIVE Unblocked(_, _)
Unblocked(t, n) ==
  \/ CanStep(t)
  \/ n > 0 /\ WaitsFor(t) # "none" /\ Unblocked(WaitsFor(t), n - 1)

\* C12: a thread that acquires a mutex holds only mutexes that come earlier
\* in the order config mutex, buffer mutex, store mutex, transport mutex; and
\* no thread is ever stuck: a thread that waits for a mutex or in a join
\* waits for a thread that can take a step, directly or through other waiting
\* threads.
C12_OrderedAndDeadlockFree ==
  \A t \in Threads :
    /\ (todo[t] # <<>> /\ Head(todo[t]).op = "lock") =>
         \A l \in Mutexes : owner[l] = t => LockRank(l) < LockRank(Head(todo[t]).arg)
    /\ WaitsFor(t) # "none" => Unblocked(WaitsFor(t), 2)

\* The three threads contend: the platform thread waits for the config mutex
\* the flush thread holds, and the flush thread waits for the transport mutex
\* the replay thread holds.
C12_Contention ==
  /\ WaitsFor("platform") = "flush_thread"
  /\ owner["config_mutex"] = "flush_thread"
  /\ WaitsFor("flush_thread") = "flush_thread_"
  /\ owner["curl_mutex_"] = "flush_thread_"

\* C21: when every event enqueued since the queue was empty is still queued
\* and the limit covers them all, GetQueuedEvents returns exactly these events
\* oldest first and deletes none; RemoveEvents of the returned ids then leaves
\* a queue of size 0.
C21_DrainThenRemove ==
  [][ /\ ( /\ fpc = "lock" /\ fpc' = "post"
           /\ Ids(events) = 1..(nextId - 1)
           /\ Len(events) <= max_batch_size )
           => (fevents' = events /\ events' = events)
      /\ ( /\ fpc = "remove" /\ fresp /\ ~IsNull(storage_manager)
           /\ Ids(fevents) = Ids(events) )
           => GetQueueSize(events') = 0 ]_vars

\* The sources of the replay POSTs: the replay worker and Flush().
ReplaySources == {"replay", "replay_flush"}

\* C22: in every replay batch that is posted, by the replay worker or by
\* Flush(), every meta event comes before every snapshot event.
C22_MetaBeforeSnapshots ==
  wire.src \in ReplaySources =>
    \A i, j \in DOMAIN wire.batch :
      (wire.batch[i].kind = "meta" /\ wire.batch[j].kind = "snapshot") => i < j

\* A replay batch is posted whose meta event was added after its snapshot.
C22_LaterMetaPostedFirst ==
  /\ wire.src \in ReplaySources /\ Len(wire.batch) = 2
  /\ wire.batch[1].kind = "meta" /\ wire.batch[2].kind = "snapshot"
  /\ wire.batch[1].frame > wire.batch[2].frame

\* C23: an evaluation of the replay worker decides to send if and only if the
\* pipeline is active and the snapshot buffer holds at least batchSize frames
\* or is non-empty with the interval elapsed; the step that decides to send
\* empties both buffers and resets the timer.
C23_SendIffDue ==
  [][ (RW_Sleep /\ r_should_flush /\ ~IsNull(http_client)) =>
        /\ (rpc' = "send") <=>
             /\ is_active
             /\ \/ Len(snapshot_buffer) >= batch_size
                \/ snapshot_buffer # <<>> /\ timer_expired
        /\ (rpc' = "send") =>
             /\ snapshot_buffer' = <<>> /\ meta_event_buffer' = <<>>
             /\ ~timer_expired' ]_vars

\* The batch of the scenario: the meta event of the first call, then the
\* snapshot of the second call, both under the stored session id.
IsMetaThenSnapshot(batch, sid) ==
  /\ Len(batch) = 2
  /\ batch[1].kind = "meta" /\ batch[1].frame = 1
  /\ batch[2].kind = "snapshot" /\ batch[2].frame = 2
  /\ \A i \in DOMAIN batch : batch[i].session_id = sid /\ sid # ""

\* The frames the replay pipeline still holds, in its buffers or in the
\* locals of its worker.
HeldFrames ==
  Range(snapshot_buffer) \cup Range(meta_event_buffer)
    \cup Range(rsnapshots) \cup Range(rmeta)

\* A batch that carries the meta event of the first call before the snapshot
\* of the second call, every event under the stored session id.
CarriesMetaThenSnapshot(batch, sid) ==
  /\ \E i, j \in DOMAIN batch :
       /\ i < j
       /\ batch[i].kind = "meta" /\ batch[i].frame = 1
       /\ batch[j].kind = "snapshot" /\ batch[j].frame = 2
  /\ \A i \in DOMAIN batch : batch[i].session_id = sid /\ sid # ""

\* C24: with batchSize = 1, after sendMetaEvent then sendFullSnapshot the
\* replay worker posts the meta event and the snapshot event in one batch,
\* meta first, both under the session id getSessionId answers; a POST that
\* carries the meta event and nothing of any later call is exactly the batch
\* <<meta event, snapshot event>>, and neither event is held for another POST
\* afterwards.
C24_OnePostMetaThenSnapshot ==
  /\ [][ ( /\ batch_size = 1 /\ wire'.src \in ReplaySources
           /\ \E i \in DOMAIN wire'.batch :
                wire'.batch[i].kind = "meta" /\ wire'.batch[i].frame = 1
           /\ \A i \in DOMAIN wire'.batch : wire'.batch[i].frame <= 2 )
           => /\ IsMetaThenSnapshot(wire'.batch, session_id')
              /\ HeldFrames' \cap {1, 2} = {} ]_vars
  /\ ( /\ batch_size = 1 /\ is_active
       /\ meta_event_buffer = <<1>> /\ snapshot_buffer = <<2>> )
       ~> (wire.src = "replay" /\ CarriesMetaThenSnapshot(wire.batch, session_id))

\* The batch of the scenario has been posted by the replay worker.
C24_Posted ==
  /\ batch_size = 1 /\ wire.src = "replay"
  /\ IsMetaThenSnapshot(wire.batch, session_id)

\* C25: the frames of a replay POST that failed are still in the buffers of
\* the pipeline, to be sent again.
C25_FailedFramesStayQueued ==
  (wire.src \in ReplaySources /\ ~wire.success) =>
    \A i \in DOMAIN wire.batch :
      wire.batch[i].frame \in Range(snapshot_buffer) \cup Range(meta_event_buffer)

\* C26: a 2xx answer to /decide that holds no featureFlags object (the key is
\* missing or its value is not an object) leaves the flag cache as it was
\* before the reload.
C26_UnparsableKeepsCache ==
  [][ ( /\ wire'.src = "decide" /\ wire'.success
        /\ decide_body.kind \in {"no_key", "not_object"} )
      => flags_cache' = flags_cache ]_vars

\* C27: when the POST to /decide fails, by a transport error or a status
\* outside 2xx, ReloadFeatureFlags returns false and neither the cache nor the
\* persisted feature_flags row changes.
C27_FailedReloadChangesNothing ==
  [][ (wire'.src = "decide" /\ ~wire'.success)
      => /\ reload_result' = "false"
         /\ flags_cache' = flags_cache
         /\ feature_flags' = feature_flags ]_vars

\* A failed reload on a cache that holds flags, while the server had other
\* flags to give.
C27_FailedOnFilledCache ==
  /\ call = "reloadFeatureFlags" /\ wire.src = "decide" /\ ~wire.success
  /\ reload_result = "false"
  /\ flags_cache # NoFlags
  /\ decide_body.kind = "flags" /\ decide_body # feature_flags

\* The server's value of key k enables the flag: boolean true or a string
\* that is not empty ("true", "1", a variant label).
ServerEnables(flags, k) ==
  /\ k \in DOMAIN flags
  /\ \/ flags[k] = JsonTrue
     \/ flags[k][1] = Quote /\ Len(flags[k]) > 2

\* C28: after a reload that parsed a featureFlags object, isFeatureEnabled of
\* a key is true exactly when the server's value is boolean true or a string
\* that is not empty, and false when it is false, empty or absent.
C28_EnabledIffServerEnables ==
  [][ ( /\ wire'.src = "decide" /\ reload_result' = "true"
        /\ decide_body.kind = "flags" )
      => \A k \in FlagKeys :
           IsFeatureEnabled(flags_cache', k) <=> ServerEnables(decide_body.flags, k) ]_vars

\* The setups that cannot initialise the agent: args is not a map, apiKey is
\* empty, or the storage cannot be opened.
FailingSetups ==
  {a \in EventSetups : ~a.map \/ a.apiKey = "" \/ a.env = "storage_fails"}

\* C29: a setup that cannot initialise the agent leaves it uninitialised,
\* starts no worker, enqueues no event and issues no request; while the agent
\* is uninitialised, capture, identify and screen change nothing and issue no
\* request.
C29_FailedSetupLeavesAgentOff ==
  [][ /\ (~initialized /\ \E a \in FailingSetups : handle_setup(a))
         => /\ ~initialized' /\ ~should_flush'
            /\ fpc' = fpc /\ rpc' = rpc
            /\ events' = events
            /\ wire' = NoPost
      /\ (~initialized /\ call' \in {"capture", "identify", "screen"})
         => /\ UNCHANGED <<storeVars, settingsVars, flushVars, initialized>>
            /\ wire' = NoPost ]_vars

\* A setup has just failed: no storage, no worker, nothing queued or posted.
C29_SetupFailed ==
  /\ call = "setup" /\ ~initialized /\ IsNull(storage_manager)
  /\ fpc = "none" /\ events = <<>> /\ wire = NoPost

\* The ids generated by the previous process.
PreviousIds == {GenerateUuid(i) : i \in 1..(prevUuid - 1)}

\* C30: the setup of a process started on the database of a previous run
\* keeps the distinct id the previous run left, and from that setup on the
\* session id is none of the ids of the previous run.
C30_SameDistinctIdNewSession ==
  [][ /\ ( /\ prevUuid > 0 /\ call' = "setup" /\ ~initialized /\ initialized'
           /\ distinct_id # "" )
         => distinct_id' = distinct_id
      /\ (prevUuid' > 0 /\ initialized')
         => session_id' \notin PreviousIds' ]_vars

\* getSessionId in the second run, under the distinct id that the first run
\* generated.
C30_SecondRunAnswered ==
  /\ prevUuid > 0 /\ initialized /\ call = "getSessionId"
  /\ distinct_id \in PreviousIds
  /\ session_id # "" /\ session_id \notin PreviousIds

\* C31: while is_active_ is false no frame is appended to the snapshot
\* buffer or to the meta event buffer.
C31_NoAppendWhileInactive ==
  [][ ~is_active => /\ Len(snapshot_buffer') <= Len(snapshot_buffer)
                    /\ Len(meta_event_buffer') <= Len(meta_event_buffer) ]_vars

AcceptedCapture == call' = "capture" /\ ~CaptureReturnsEarly

\* C33: an accepted capture that finds queueSize >= flushAt after enqueueing
\* its event posts one batch from the inline flush before it returns, and one
\* that finds queueSize < flushAt issues no POST.
C33_InlineFlushAtThreshold ==
  [][ AcceptedCapture =>
        IF GetQueueSize(events) + 1 >= flush_at
        THEN wire'.src = "inline" /\ wire'.batch # <<>>
        ELSE wire' = NoPost ]_vars

CaptureSources == {"worker", "inline", "flush"}

\* The rows of q that are not in the batch, in their order.
RowsOutside(q, batch) == SelectSeq(q, LAMBDA r : r.id \notin Ids(batch))

\* C34: a capture POST carries at most maxBatchSize events, and on 2xx the
\* rows of its batch are removed and every other row stays: removed in the
\* step of the POST by the inline and the explicit flush, in the next step of
\* the worker by the worker.
C34_BatchBoundedAndRemoved ==
  [][ /\ wire'.src \in CaptureSources => Len(wire'.batch) <= max_batch_size
      /\ (wire'.src \in {"inline", "flush"} /\ wire'.success)
         => /\ Ids(events') \cap Ids(wire'.batch) = {}
            /\ Len(events') >= Len(RowsOutside(events, wire'.batch))
            /\ \A i \in 1..Len(RowsOutside(events, wire'.batch)) :
                 events'[i] = RowsOutside(events, wire'.batch)[i]
      /\ (fpc = "remove" /\ fpc' = "sleep" /\ fresp)
         => events' = RowsOutside(events, fevents) ]_vars

\* C35: a setup on an initialised agent changes nothing: the configuration,
\* the distinct id, the session id, the queue, both workers and the replay
\* settings stay as they were and nothing is posted; and the step that
\* initialises the agent finds no flush worker and no replay worker, so there
\* is never a second one.
C35_SecondSetupChangesNothing ==
  [][ /\ (call' = "setup" /\ initialized)
         => /\ UNCHANGED <<pluginVars, storeVars, settingsVars, flushVars,
                           replayCfg, replayBuf, replayThr, flags_cache,
                           feature_flags, settings_opt_out>>
            /\ wire' = NoPost
      /\ (~initialized /\ initialized') => (fpc = "none" /\ rpc = "none") ]_vars

\* A setup has just returned on an agent that had enqueued an event after
\* its first setup.
C35_SetupCalledAgain ==
  call = "setup" /\ initialized /\ nextId > 2 /\ fpc # "none"

FramesOf(batch) == {batch[i].frame : i \in DOMAIN batch}

\* C36: a frame is handed to SendBatch at most once: what the worker hands
\* over from its locals and what Flush() hands over from the buffers was never
\* handed over before, and a posted replay batch holds no frame twice and no
\* frame of an earlier batch, with add calls, the worker and Flush() on
\* threads of their own.
C36_FrameHandedOnce ==
  [][ /\ RW_Send => (Range(rsnapshots) \cup Range(rmeta)) \cap handed = {}
      /\ (D_ReplayFlush /\ ~IsNull(http_client))
         => (Range(snapshot_buffer) \cup Range(meta_event_buffer)) \cap handed = {}
      /\ wire'.src \in ReplaySources
         => /\ FramesOf(wire'.batch) \cap handed = {}
            /\ Cardinality(FramesOf(wire'.batch)) = Len(wire'.batch) ]_vars

\* Flush() posts a frame while the worker holds another one in its locals,
\* copied and not yet sent.
C36_FlushBesideWorker ==
  /\ wire.src = "replay_flush" /\ wire.batch # <<>>
  /\ rpc = "send" /\ rsnapshots \o rmeta # <<>>

C38_OptOutFlagEqualsPersisted == initialized => (opt_out <=> isOptOut)

\* disable has just returned on an initialised agent with its store open:
\* the flag is set in memory and in the store.
C38_DisabledAndPersisted ==
  call = "disable" /\ initialized /\ DbOpen /\ opt_out /\ isOptOut

\* C39: after any sequence of reloads the in-memory flag cache equals the
\* cache a restart would hydrate from the persisted feature_flags row.
C39_CacheEqualsPersisted ==
  initialized => flags_cache = LoadCachedFlags

\* C40: once should_flush is false, set by close or by dispose, the flush
\* worker leaves its loop, wherever in its iteration it was; the join of close
\* returns and the join of dispose returns.
C40_WorkerLeavesAndJoinReturns ==
  /\ (~should_flush /\ fpc # "none") ~> (fpc = "done")
  /\ (closePc = "join") ~> (closePc = "idle" /\ FlushThreadJoined)
  /\ (disposePc # "none") ~> (disposePc = "done" /\ FlushThreadJoined)

\* close has returned from its join on an initialised agent: the worker has
\* left its loop.
C40_JoinedAfterClose ==
  /\ closeReturned /\ closePc = "idle" /\ ~should_flush
  /\ fpc = "done" /\ disposePc = "none"
====
